---- MODULE Spec2Model ----
(***************************************************************************)
(* Ticket service (FastAPI + SQLAlchemy over the default SQLite store).    *)
(*                                                                         *)
(* Spec      the HTTP handlers of app/ticket/routes.py, one request at a   *)
(*           time (create, list_all, get, update, delete), over the        *)
(*           tickets table; get_db's teardown ends the request.            *)
(* SpecConc  two update requests on the same ticket, each in its own       *)
(*           session, interleaved step by step (read row, set attributes,  *)
(*           commit, refresh and respond).                                 *)
(***************************************************************************)
EXTENDS Integers, Sequences, FiniteSets

VARIABLES
    store,      \* the tickets table: rowid -> row (title, description, status)
    req,        \* Spec: the request in flight (op "none": no request)
    resp,       \* Spec: the response to it
    before,     \* Spec: the table as the request in flight found it
    assigned,   \* history: every id a create has returned
    deleted,    \* history: every id a delete has removed
    sess,       \* SpecConc: the two in-flight update requests
    commits     \* SpecConc: the sessions in the order their commits were accepted

vars == <<store, req, resp, before, assigned, deleted, sess, commits>>

(***************************************************************************)
(* Bounds                                                                  *)
(***************************************************************************)
\* create is not offered once the next rowid would exceed MaxId
MaxId == 2

(***************************************************************************)
(* JSON values and column values: a kind and, for a string, its text.      *)
(***************************************************************************)
Unset == <<"unset">>         \* key absent from the body / query
Null == <<"null">>           \* JSON null, Python None, SQL NULL
Str(s) == <<"str", s>>
Num == <<"int", "5">>        \* a JSON number where a string is declared

Kind(v) == v[1]
Val(v) == v[2]

Fields == {"title", "description", "status"}

NoBody == [title |-> Unset, description |-> Unset, status |-> Unset, id |-> Unset]

(***************************************************************************)
(* app/ticket/schemas.py                                                   *)
(***************************************************************************)
\* mutant of MinLength1: the min_length constraint dropped
MinLength0(v) == Kind(v) = "str"

\* Field(..., min_length=1) on a str field: required, a string, len >= 1
MinLength1(v) == Kind(v) = "str" /\ Val(v) # ""

\* TicketBase: title and description
TicketBase(o) == MinLength1(o.title) /\ MinLength1(o.description)

\* TicketCreate(TicketBase): pass.  Whether the body validates.
TicketCreate(body) == TicketBase(body)

\* mutant of TicketCreate_model_dump: undeclared keys kept (extra="allow")
TicketCreate_model_dump_extra(body) ==
    IF body.status = Unset
    THEN [title |-> body.title, description |-> body.description]
    ELSE [title |-> body.title, description |-> body.description,
          status |-> body.status]

\* TicketCreate.model_dump(): the declared fields only; keys of the body the
\* model does not declare (status, id) are ignored by pydantic.
TicketCreate_model_dump(body) ==
    [title |-> body.title, description |-> body.description]

\* str | None = None : absent, null or a string
OptionalStr(v) == Kind(v) \in {"unset", "null", "str"}

\* TicketUpdate: whether the body validates
TicketUpdate(body) == \A f \in Fields : OptionalStr(body[f])

\* TicketUpdate.model_dump(exclude_unset=True): the keys the body carries
TicketUpdate_model_dump(body) == {f \in Fields : Kind(body[f]) # "unset"}

\* TicketOut(TicketBase): id: int, status: str; validated from attributes
TicketOut(t) == TicketBase(t) /\ Kind(t.status) = "str"

(***************************************************************************)
(* app/ticket/models.py and the SQLite table behind it                     *)
(***************************************************************************)
\* nullable=False on title and description; status has no such constraint
Nullable(f) == f = "status"

\* Column(String, default="open"): applied at INSERT to an attribute not given
StatusDefault == Str("open")

Max(S) == CHOOSE m \in S : \A x \in S : x <= m

\* id = Column(Integer, primary_key=True): an INTEGER PRIMARY KEY without
\* AUTOINCREMENT is SQLite's rowid, one more than the largest rowid in the table
NextRowid(st) == IF DOMAIN st = {} THEN 1 ELSE Max(DOMAIN st) + 1

\* Ticket(**attrs) as inserted
Ticket(attrs) ==
    [title |-> attrs.title,
     description |-> attrs.description,
     status |-> IF "status" \in DOMAIN attrs THEN attrs.status ELSE StatusDefault]

\* a row with its id, as the ORM object the handlers return
Entity(id, row) ==
    [id |-> id, title |-> row.title, description |-> row.description,
     status |-> row.status]

Insert(st, id, row) ==
    [i \in DOMAIN st \cup {id} |-> IF i = id THEN row ELSE st[i]]

Remove(st, id) == [i \in DOMAIN st \ {id} |-> st[i]]

(***************************************************************************)
(* app/ticket/services.py                                                  *)
(***************************************************************************)
RECURSIVE RowsFrom(_, _)
RowsFrom(st, i) ==
    IF DOMAIN st = {} \/ i > Max(DOMAIN st) THEN <<>>
    ELSE IF i \in DOMAIN st THEN <<Entity(i, st[i])>> \o RowsFrom(st, i + 1)
    ELSE RowsFrom(st, i + 1)

\* db.query(Ticket).all(): a table scan, in rowid order
get_all_tickets(st) == RowsFrom(st, 1)

\* mutant of get_ticket: the filter on the id dropped, first() of the table
get_ticket_unfiltered(st, id) ==
    IF DOMAIN st = {} THEN <<>>
    ELSE LET first == CHOOSE i \in DOMAIN st : \A j \in DOMAIN st : i <= j
         IN  <<Entity(first, st[first])>>

\* db.query(Ticket).filter(Ticket.id == ticket_id).first(): <<>> is None
get_ticket(st, id) == IF id \in DOMAIN st THEN <<Entity(id, st[id])>> ELSE <<>>

\* db.refresh(db_ticket): the object re-read from its row, by primary key
db_refresh(st, id) == <<Entity(id, st[id])>>

\* mutant of SetAttrs: model_dump() without exclude_unset, absent keys as None
SetAttrs_all(row, body) ==
    [f \in Fields |-> IF Kind(body[f]) = "unset" THEN Null ELSE body[f]]

\* setattr for every dumped field on the loaded object
SetAttrs(row, body) ==
    [f \in Fields |->
        IF f \in TicketUpdate_model_dump(body) THEN body[f] ELSE row[f]]

\* mutant of Dirty: the UPDATE carries every column of the object
Dirty_every_column(loaded, obj) == Fields

\* the flush at commit: the UPDATE carries the attributes whose value differs
\* from the value the session loaded
Dirty(loaded, obj) == {f \in Fields : obj[f] # loaded[f]}

\* NOT NULL constraint of the UPDATE (IntegrityError)
IntegrityError(loaded, obj) ==
    \E f \in Dirty(loaded, obj) : Kind(obj[f]) = "null" /\ ~Nullable(f)

\* the row after UPDATE tickets SET <dirty columns> WHERE id = ?
Flush(row, loaded, obj) ==
    [f \in Fields |-> IF f \in Dirty(loaded, obj) THEN obj[f] ELSE row[f]]

(***************************************************************************)
(* app/ticket/routes.py: responses                                         *)
(***************************************************************************)
Response(code, body, detail) == [code |-> code, body |-> body, detail |-> detail]

\* response_model=TicketOut / list[TicketOut]: every returned object is
\* validated; a failure is a ResponseValidationError, answered 500
Serialize(okcode, items) ==
    IF \A k \in 1..Len(items) : TicketOut(items[k])
    THEN Response(okcode, items, "")
    ELSE Response(500, <<>>, "Internal Server Error")

\* raise HTTPException(status_code=404, detail="Ticket not found")
NotFound == Response(404, <<>>, "Ticket not found")

\* the body failed TicketCreate / TicketUpdate: the handler is not entered
Unprocessable == Response(422, <<>>, "validation error")

\* an exception escaping the handler (IntegrityError at commit)
ServerError == Response(500, <<>>, "Internal Server Error")

Request(op, id, body, q) == [op |-> op, id |-> id, body |-> body, q |-> q]

(***************************************************************************)
(* Inputs                                                                  *)
(***************************************************************************)
\* path ids: every id the table can hold, and one it never assigns
Ids == 1..(MaxId + 1)

\* keys a create body may carry that TicketCreate does not declare
CreateExtras ==
    {[status |-> Unset, id |-> Unset], [status |-> Str("closed"), id |-> Num]}

CreateBodies ==
    {[title |-> t, description |-> d, status |-> x.status, id |-> x.id] :
        t \in {Unset, Null, Str(""), Str("A")},
        d \in {Unset, Str(""), Str("D")},
        x \in CreateExtras}

UpdateBody(t, d, s) == [title |-> t, description |-> d, status |-> s, id |-> Unset]

\* string-or-absent bodies, bodies that carry a null, and one of a wrong type
UpdateBodies ==
    {UpdateBody(t, d, s) :
        t \in {Unset, Str(""), Str("A")},
        d \in {Unset, Str("E")},
        s \in {Unset, Str("open"), Str("closed")}}
    \cup {UpdateBody(Null, Unset, Unset), UpdateBody(Unset, Null, Unset),
          UpdateBody(Unset, Unset, Null), UpdateBody(Null, Unset, Str("closed")),
          UpdateBody(Str("A"), Unset, Null), UpdateBody(Unset, Unset, Num)}

\* the status query parameter: absent, or a string
StatusParams ==
    {Unset, Str(""), Str("open"), Str("closed"), Str("Open"), Str(" open")}

(***************************************************************************)
(* SpecConc: sessions                                                      *)
(***************************************************************************)
Sessions == {1, 2}

NoRow == [f \in Fields |-> Unset]

NoRequest == Request("none", 0, NoBody, Unset)

NoResponse == Response(0, <<>>, "")

\* the update bodies of the two concurrent requests: strings or absent
ConcBodies ==
    {UpdateBody(t, Unset, s) :
        t \in {Unset, Str(""), Str("A"), Str("B")},
        s \in {Unset, Str("open"), Str("closed")}}

(***************************************************************************)
(* Spec: one request at a time                                             *)
(***************************************************************************)
EmptyTable == [i \in {} |-> NoRow]

Init ==
    /\ store = EmptyTable
    /\ req = NoRequest
    /\ resp = NoResponse
    /\ before = EmptyTable
    /\ assigned = {}
    /\ deleted = {}
    /\ sess = <<>>
    /\ commits = <<>>

\* a request enters its handler with a session of its own
Enter(r) ==
    /\ req = NoRequest
    /\ req' = r
    /\ before' = store
    /\ UNCHANGED <<sess, commits>>

\* POST /tickets/
create(body) ==
    /\ Enter(Request("create", 0, body, Unset))
    /\ IF ~TicketCreate(body)
       THEN /\ resp' = Unprocessable
            /\ UNCHANGED <<store, assigned, deleted>>
       ELSE LET id == NextRowid(store)
                db_ticket == Ticket(TicketCreate_model_dump(body))
            IN  /\ id <= MaxId
                /\ store' = Insert(store, id, db_ticket)
                /\ resp' = Serialize(201, db_refresh(store', id))
                /\ assigned' = assigned \cup {id}
                /\ UNCHANGED deleted

\* the response of GET /tickets/?status=
list_all_response(st, status) ==
    LET items == get_all_tickets(st)
        Keep(t) == t.status = status
    IN  Serialize(200, IF Kind(status) = "str" /\ Val(status) # ""
                       THEN SelectSeq(items, Keep) ELSE items)

\* GET /tickets/?status=
list_all(status) ==
    /\ Enter(Request("list", 0, NoBody, status))
    /\ resp' = list_all_response(store, status)
    /\ UNCHANGED <<store, assigned, deleted>>

\* the response of GET /tickets/{ticket_id}
get_response(st, ticket_id) ==
    IF get_ticket(st, ticket_id) = <<>> THEN NotFound
    ELSE Serialize(200, get_ticket(st, ticket_id))

\* GET /tickets/{ticket_id}
get(ticket_id) ==
    /\ Enter(Request("get", ticket_id, NoBody, Unset))
    /\ resp' = get_response(store, ticket_id)
    /\ UNCHANGED <<store, assigned, deleted>>

\* PUT /tickets/{ticket_id}
update(ticket_id, body) ==
    /\ Enter(Request("update", ticket_id, body, Unset))
    /\ IF ~TicketUpdate(body)
       THEN resp' = Unprocessable /\ UNCHANGED store
       ELSE IF get_ticket(store, ticket_id) = <<>>
       THEN resp' = NotFound /\ UNCHANGED store
       ELSE LET loaded == store[ticket_id]
                obj == SetAttrs(loaded, body)
            IN  IF IntegrityError(loaded, obj)
                THEN resp' = ServerError /\ UNCHANGED store
                ELSE /\ store' = [store EXCEPT
                                    ![ticket_id] = Flush(store[ticket_id], loaded, obj)]
                     /\ resp' = Serialize(200, db_refresh(store', ticket_id))
    /\ UNCHANGED <<assigned, deleted>>

\* DELETE /tickets/{ticket_id}
delete(ticket_id) ==
    /\ Enter(Request("delete", ticket_id, NoBody, Unset))
    /\ IF get_ticket(store, ticket_id) = <<>>
       THEN resp' = NotFound /\ UNCHANGED <<store, deleted>>
       ELSE /\ store' = Remove(store, ticket_id)
            /\ deleted' = deleted \cup {ticket_id}
            /\ resp' = Serialize(200, get_ticket(store, ticket_id))
    /\ UNCHANGED assigned

\* get_db's teardown once the response is out: the request is over
close ==
    /\ req # NoRequest
    /\ req' = NoRequest
    /\ resp' = NoResponse
    /\ before' = store
    /\ UNCHANGED <<store, assigned, deleted, sess, commits>>

Next ==
    \/ \E body \in CreateBodies : create(body)
    \/ \E status \in StatusParams : list_all(status)
    \/ \E ticket_id \in Ids : get(ticket_id)
    \/ \E ticket_id \in Ids : \E body \in UpdateBodies : update(ticket_id, body)
    \/ \E ticket_id \in Ids : delete(ticket_id)
    \/ close

Spec == Init /\ [][Next]_vars

(***************************************************************************)
(* SpecConc: two PUT /tickets/1 requests, each in its own session          *)
(* (get_db: SessionLocal() per request), interleaved at the steps of       *)
(* update_ticket.                                                          *)
(***************************************************************************)
\* ticket 1 as create left it, and two validated update requests on it
InitConc ==
    /\ store = Insert(EmptyTable, 1,
                      Ticket(TicketCreate_model_dump(
                          [title |-> Str("A"), description |-> Str("D")])))
    /\ req = NoRequest
    /\ resp = NoResponse
    /\ before = store
    /\ assigned = {1}
    /\ deleted = {}
    /\ sess \in [Sessions -> {[pc |-> "read", id |-> 1, body |-> b, loaded |-> NoRow,
                               obj |-> NoRow, resp |-> NoResponse] : b \in ConcBodies}]
    /\ commits = <<>>

\* db_ticket = get_ticket(db, ticket_id); if not db_ticket: return None
read(s) ==
    /\ sess[s].pc = "read"
    /\ IF get_ticket(store, sess[s].id) = <<>>
       THEN sess' = [sess EXCEPT ![s].pc = "done", ![s].resp = NotFound]
       ELSE sess' = [sess EXCEPT ![s].pc = "setattr",
                                 ![s].loaded = store[sess[s].id],
                                 ![s].obj = store[sess[s].id]]
    /\ UNCHANGED <<store, commits, req, resp, before, assigned, deleted>>

\* for field, value in payload.model_dump(exclude_unset=True).items(): setattr
setattr(s) ==
    /\ sess[s].pc = "setattr"
    /\ sess' = [sess EXCEPT ![s].pc = "commit",
                            ![s].obj = SetAttrs(sess[s].loaded, sess[s].body)]
    /\ UNCHANGED <<store, commits, req, resp, before, assigned, deleted>>

\* db.commit(): flush the dirty attributes, then COMMIT
commit(s) ==
    /\ sess[s].pc = "commit"
    /\ IF IntegrityError(sess[s].loaded, sess[s].obj)
       THEN /\ sess' = [sess EXCEPT ![s].pc = "done", ![s].resp = ServerError]
            /\ UNCHANGED <<store, commits>>
       ELSE /\ store' = [store EXCEPT ![sess[s].id] =
                             Flush(store[sess[s].id], sess[s].loaded, sess[s].obj)]
            /\ commits' = Append(commits, s)
            /\ sess' = [sess EXCEPT ![s].pc = "refresh"]
    /\ UNCHANGED <<req, resp, before, assigned, deleted>>

\* db.refresh(db_ticket); return db_ticket, through response_model=TicketOut
refresh(s) ==
    /\ sess[s].pc = "refresh"
    /\ sess' = [sess EXCEPT ![s].pc = "done",
                            ![s].obj = store[sess[s].id],
                            ![s].resp = Serialize(200, db_refresh(store, sess[s].id))]
    /\ UNCHANGED <<store, commits, req, resp, before, assigned, deleted>>

NextConc ==
    \/ \E s \in Sessions : read(s)
    \/ \E s \in Sessions : setattr(s)
    \/ \E s \in Sessions : commit(s)
    \/ \E s \in Sessions : refresh(s)

SpecConc == InitConc /\ [][NextConc]_vars

(***************************************************************************)
(* Claims.  Under Spec a state with req.op # "none" is the state right     *)
(* after a handler ran: req is its request, resp its response, before the  *)
(* table it found and store the table it left.                             *)
(***************************************************************************)
NonEmptyString(v) == Kind(v) = "str" /\ Val(v) # ""

ValidCreateInput(b) == NonEmptyString(b.title) /\ NonEmptyString(b.description)

\* C1 (round trip): a create with a non-empty string title and description
\* is answered 201 with one ticket, and a get on the returned id, run on the
\* table create left, is answered 200 with that same ticket.
C1_RoundTrip ==
    (req.op = "create" /\ ValidCreateInput(req.body)) =>
        /\ resp.code = 201
        /\ Len(resp.body) = 1
        /\ get_response(store, resp.body[1].id) = Response(200, resp.body, "")

\* a valid create into a table that already holds a ticket
C1_Witness ==
    /\ req.op = "create"
    /\ ValidCreateInput(req.body)
    /\ resp.code = 201
    /\ DOMAIN before # {}

\* C2 (partial update): after an update of a ticket the table held, the
\* ticket is still stored under its id and every field the body omits has
\* the value it had before; whatever a get on the id then returns carries
\* those values.
C2_PartialUpdate ==
    (req.op = "update" /\ req.id \in DOMAIN before) =>
        /\ req.id \in DOMAIN store
        /\ \A f \in Fields :
              req.body[f] = Unset =>
                  /\ store[req.id][f] = before[req.id][f]
                  /\ \A k \in 1..Len(get_response(store, req.id).body) :
                        get_response(store, req.id).body[k][f] = before[req.id][f]

\* an update of the status alone that changed it, read back with the old
\* title and description
C2_Witness ==
    /\ req.op = "update"
    /\ req.id \in DOMAIN before
    /\ req.body.title = Unset /\ req.body.description = Unset
    /\ req.body.status = Str("closed")
    /\ before[req.id].status = Str("open")
    /\ resp.code = 200
    /\ store[req.id].status = Str("closed")
    /\ get_response(store, req.id).code = 200

\* C8 (validation boundary): a create whose title or description is missing
\* or empty is answered 422 and leaves the table, and so the length of an
\* unfiltered list, as it was.
C8_ValidationBoundary ==
    (/\ req.op = "create"
     /\ \/ req.body.title \in {Unset, Str("")}
        \/ req.body.description \in {Unset, Str("")}) =>
        /\ resp.code = 422
        /\ store = before
        /\ Len(get_all_tickets(store)) = Len(get_all_tickets(before))

\* a create with an empty title, refused while the table holds a ticket
C8_Witness ==
    /\ req.op = "create"
    /\ req.body.title = Str("")
    /\ req.body.description = Str("D")
    /\ resp.code = 422
    /\ DOMAIN before # {}

\* C9 (default status): the ticket a valid create stores and returns has
\* status "open", whatever status or id the body carries.
C9_DefaultStatus ==
    (req.op = "create" /\ ValidCreateInput(req.body)) =>
        /\ resp.code = 201
        /\ Len(resp.body) = 1
        /\ resp.body[1].status = Str("open")
        /\ resp.body[1].id \in DOMAIN store
        /\ store[resp.body[1].id].status = Str("open")

\* a valid create whose body carries status "closed" and an id
C9_Witness ==
    /\ req.op = "create"
    /\ req.body.status = Str("closed")
    /\ req.body.id = Num
    /\ resp.code = 201

\* C3 (not found): a get, update (with a body that validates) or delete on
\* an id that no create has returned, or that a delete has removed, is
\* answered 404 "Ticket not found" and leaves the table unchanged.
C3_NotFound ==
    [][(/\ req'.op \in {"get", "update", "delete"}
        /\ TicketUpdate(req'.body)
        /\ req'.id \notin assigned \/ req'.id \in deleted)
       => (resp' = NotFound /\ store' = store)]_vars

\* the tickets a filter value selects: those whose status is that string
WithStatus(items, v) ==
    LET Same(t) == t.status = v IN SelectSeq(items, Same)

\* C4 (filter): a list with the status parameter present returns exactly
\* the stored tickets whose status equals it; with the parameter absent it
\* returns all stored tickets.
C4_Filter ==
    req.op = "list" =>
        /\ resp.code = 200
        /\ resp.body = IF req.q = Unset THEN get_all_tickets(store)
                       ELSE WithStatus(get_all_tickets(store), req.q)

\* C5 (ids are not reused): a create never returns an id that an earlier
\* create returned, and a ticket that stays stored stays under its id.
C5_IdsNeverReused ==
    [][(req'.op = "create" /\ resp'.code = 201)
       => (/\ resp'.body[1].id \notin assigned
           /\ \A i \in DOMAIN store : i \in DOMAIN store' /\ store'[i] = store[i])]_vars

\* C6 (non-null): every stored ticket has a non-null title, description and
\* status, under its (integer) id.
C6_NonNull ==
    \A i \in DOMAIN store :
        /\ i \in Int
        /\ \A f \in Fields : Kind(store[i][f]) = "str"

StringOrAbsent(b) == \A f \in Fields : Kind(b[f]) \in {"unset", "str"}

\* the row an update is to leave: the present fields overwritten
Overwritten(row, b) ==
    [f \in Fields |-> IF b[f] = Unset THEN row[f] ELSE b[f]]

\* C7 (update success): an update of a stored ticket with a body of strings
\* (empty ones included) overwrites exactly the present fields, is answered
\* 200 with the updated ticket, and a get on the id is then answered 200
\* with the same ticket.
C7_UpdateSuccess ==
    (req.op = "update" /\ req.id \in DOMAIN before /\ StringOrAbsent(req.body)) =>
        /\ store = [before EXCEPT
                      ![req.id] = Overwritten(before[req.id], req.body)]
        /\ resp = Response(200, <<Entity(req.id, store[req.id])>>, "")
        /\ get_response(store, req.id) = resp

(***************************************************************************)
(* Claims under SpecConc                                                   *)
(***************************************************************************)
AllDone == \A s \in Sessions : sess[s].pc = "done"

Committed(s) == \E k \in 1..Len(commits) : commits[k] = s

LastCommitter == commits[Len(commits)]

Other(s) == CHOOSE t \in Sessions : t # s

BothSet == {f \in Fields : \A s \in Sessions : sess[s].body[f] # Unset}

====
